---- MODULE Spec2Model ----
(***************************************************************************)
(* A model of server.js (airtable-geojson-api): the field normalizers      *)
(* (normalizeUrl, pickAttachmentUrl, collectPhotoUrls, normalizeLeaders,   *)
(* parseGeometry), the /networks.geojson handler with its paginated        *)
(* fetchAllRecords loop, and the /img and /image redirect handlers with    *)
(* their in-memory URL cache.                                              *)
(*                                                                         *)
(* JavaScript strings are TLA+ strings; Len, SubSeq and \o act on them as  *)
(* on sequences of characters.  JSON values are records tagged by k.       *)
(***************************************************************************)
EXTENDS Integers, Sequences, FiniteSets, TLC

VARIABLES
    uIn,        \* SpecUrl: the URL string under construction
    uN,         \* SpecUrl: number of pieces it is made of
    uOut,       \* SpecUrl: normalizeUrl(uIn), once computed
    uPhase,     \* SpecUrl: "build" or "done"
    cArr,       \* SpecCollect: an array of URL strings
    cOut,       \* SpecCollect: collectPhotoUrls of the array and of its JSON text
    cPhase,     \* SpecCollect: "build" or "done"
    lIn,        \* SpecLeaders: the value of the "Network Leaders Names" field
    lOut,       \* SpecLeaders: what normalizeLeaders made of it
    lPhase,     \* SpecLeaders: "build" or "done"
    hPc,        \* Spec: the /networks.geojson request: "idle", "await" (a page
                \*   request is in flight) or "done" (answered)
    hBase,      \* Spec: getBaseUrl(req)
    hAll,       \* Spec: fetchAllRecords' all
    hOffset,    \* Spec: fetchAllRecords' offset ("" while undefined)
    hReqOffset, \* Spec: the offset parameter of the page request in flight
    hResp,      \* Spec: the response sent: status, features, error
    upServed,   \* Spec: the records upstream has served to this request
    upFailed,   \* Spec: how many page requests upstream has failed for it
    pKinds,     \* SpecPhoto: the kinds of the items of a Photo field
    pShape,     \* SpecPhoto: the shape the field was given
    pOut,       \* SpecPhoto: the Feature built from the record
    pPhase,     \* SpecPhoto: "build" or "done"
    xNow,       \* SpecProxy: Date.now()
    xTicks,     \* SpecProxy: how many times the clock has advanced
    xCache,     \* SpecProxy: urlCache, a function from keys to entries
    xVer,       \* SpecProxy: the generation of the URLs upstream hands out
    xPc,        \* SpecProxy: "idle", "fetch" (fetchRecordById is awaited) or "done"
    xReq,       \* SpecProxy: the latest request: route, recordId, index, key, at
    xResp,      \* SpecProxy: the response to it: status, target
    xReqs,      \* SpecProxy: how many requests have arrived
    xFetches,   \* SpecProxy: how many times fetchRecordById was called
    rClients,   \* SpecRace: the request of each client: pc, route, idx, key, reply
    rLastWrite, \* SpecRace: per key, the entry the latest setCached call stored
    tIn,        \* SpecTokens: an array value of a text or leaders field
    tOut,       \* SpecTokens: what the normalizer applied made of it
    tPhase      \* SpecTokens: "build", "field" (normalizeTextField was applied)
                \*   or "json" (normalizeLeaders was, to the array and its JSON text)

urlVars == <<uIn, uN, uOut, uPhase>>
collectVars == <<cArr, cOut, cPhase>>
leadersVars == <<lIn, lOut, lPhase>>
handlerVars == <<hPc, hBase, hAll, hOffset, hReqOffset, hResp, upServed, upFailed>>

photoVars == <<pKinds, pShape, pOut, pPhase>>
proxyVars == <<xNow, xTicks, xCache, xVer, xPc, xReq, xResp, xReqs, xFetches>>

raceVars == <<rClients, rLastWrite>>

tokenVars == <<tIn, tOut, tPhase>>

vars == <<urlVars, collectVars, leadersVars, handlerVars, photoVars, proxyVars, raceVars,
          tokenVars>>

\* The variables a specification does not use keep these values.
UrlIdle == uIn = "" /\ uN = 0 /\ uOut = "" /\ uPhase = "idle"
CollectIdle == cArr = <<>> /\ cOut = <<>> /\ cPhase = "idle"

LeadersIdle == lIn = <<>> /\ lOut = <<>> /\ lPhase = "idle"

NoResponse == [status |-> 0, features |-> <<>>, error |-> ""]
HandlerIdle ==
    /\ hPc = "off" /\ hBase = "" /\ hAll = <<>> /\ hOffset = "" /\ hReqOffset = ""
    /\ hResp = NoResponse /\ upServed = <<>> /\ upFailed = 0

PhotoIdle == pKinds = <<>> /\ pShape = "" /\ pOut = <<>> /\ pPhase = "idle"

NoRequest == [route |-> "", recordId |-> "", index |-> "", idx |-> 0, key |-> "", at |-> 0]
NoReply == [status |-> 0, target |-> ""]
ProxyIdle ==
    /\ xNow = 0 /\ xTicks = 0 /\ xCache = <<>> /\ xVer = 1 /\ xPc = "off"
    /\ xReq = NoRequest /\ xResp = NoReply /\ xReqs = 0 /\ xFetches = 0

notUrl == <<collectVars, leadersVars, handlerVars, photoVars, proxyVars, raceVars, tokenVars>>
notCollect == <<urlVars, leadersVars, handlerVars, photoVars, proxyVars, raceVars, tokenVars>>
notLeaders == <<urlVars, collectVars, handlerVars, photoVars, proxyVars, raceVars, tokenVars>>
notHandler == <<urlVars, collectVars, leadersVars, photoVars, proxyVars, raceVars, tokenVars>>
notPhoto == <<urlVars, collectVars, leadersVars, handlerVars, proxyVars, raceVars, tokenVars>>
RaceIdle == rClients = <<>> /\ rLastWrite = <<>>

TokensIdle == tIn = <<>> /\ tOut = <<>> /\ tPhase = "idle"

notTokens == <<urlVars, collectVars, leadersVars, handlerVars, photoVars, proxyVars, raceVars>>
notRace == <<urlVars, collectVars, leadersVars, handlerVars, photoVars, tokenVars>>
notProxy == <<urlVars, collectVars, leadersVars, handlerVars, photoVars, raceVars, tokenVars>>

-----------------------------------------------------------------------------
(* Characters and string helpers (the JavaScript String built-ins used).   *)

Ch(s, i) == SubSeq(s, i, i)

From(s, i) == SubSeq(s, i, Len(s))

\* What String.prototype.trim and the regex class \s treat as whitespace,
\* restricted to the characters that occur in the model.
WhiteSpace == {" ", "\t", "\n", "\r"}

UpperAlpha == "ABCDEFGHIJKLMNOPQRSTUVWXYZ"
LowerAlpha == "abcdefghijklmnopqrstuvwxyz"
DigitChars == "0123456789"

IsIn(c, alphabet) == \E i \in 1..Len(alphabet) : Ch(alphabet, i) = c

\* The /i flag: compare letters without regard to case.
LowerChar(c) ==
    IF IsIn(c, UpperAlpha)
    THEN Ch(LowerAlpha, CHOOSE i \in 1..Len(UpperAlpha) : Ch(UpperAlpha, i) = c)
    ELSE c

RECURSIVE LowerStr(_)
LowerStr(s) == IF s = "" THEN "" ELSE LowerChar(Ch(s, 1)) \o LowerStr(From(s, 2))

\* Length of the run of characters of set cs that starts at index i of s.
RECURSIVE RunFrom(_, _, _)
RunFrom(s, i, cs) ==
    IF i <= Len(s) /\ Ch(s, i) \in cs THEN 1 + RunFrom(s, i + 1, cs) ELSE 0

\* Length of the run of characters of set cs that ends at index i of s.
RECURSIVE RunBack(_, _, _)
RunBack(s, i, cs) ==
    IF i >= 1 /\ Ch(s, i) \in cs THEN 1 + RunBack(s, i - 1, cs) ELSE 0

TrimStart(s) == From(s, 1 + RunFrom(s, 1, WhiteSpace))
TrimEnd(s) == SubSeq(s, 1, Len(s) - RunBack(s, Len(s), WhiteSpace))
Trim(s) == TrimEnd(TrimStart(s))

StartsWith(s, p) == Len(s) >= Len(p) /\ SubSeq(s, 1, Len(p)) = p
EndsWith(s, p) == Len(s) >= Len(p) /\ SubSeq(s, Len(s) - Len(p) + 1, Len(s)) = p

\* String.prototype.includes
Includes(s, p) == \E i \in 1..(Len(s) - Len(p) + 1) : SubSeq(s, i, i + Len(p) - 1) = p

\* String.prototype.split with a literal separator d (Len(d) >= 1).
RECURSIVE SplitOn(_, _)
SplitOn(s, d) ==
    IF ~Includes(s, d) THEN <<s>>
    ELSE LET i == CHOOSE j \in 1..(Len(s) - Len(d) + 1) :
                    /\ SubSeq(s, j, j + Len(d) - 1) = d
                    /\ \A h \in 1..(j - 1) : SubSeq(s, h, h + Len(d) - 1) # d
         IN  <<SubSeq(s, 1, i - 1)>> \o SplitOn(From(s, i + Len(d)), d)

\* String.prototype.split(/[...]/) with a one-character class cs.
RECURSIVE SplitAny(_, _)
SplitAny(s, cs) ==
    IF \A i \in 1..Len(s) : Ch(s, i) \notin cs THEN <<s>>
    ELSE LET i == CHOOSE j \in 1..Len(s) :
                    Ch(s, j) \in cs /\ \A h \in 1..(j - 1) : Ch(s, h) \notin cs
         IN  <<SubSeq(s, 1, i - 1)>> \o SplitAny(From(s, i + 1), cs)

\* [...new Set(xs)]: the first occurrence of every element, in order.
RECURSIVE Dedup(_)
Dedup(xs) ==
    IF xs = <<>> THEN <<>>
    ELSE LET front == Dedup(SubSeq(xs, 1, Len(xs) - 1))
             last == xs[Len(xs)]
         IN  IF \E i \in 1..Len(front) : front[i] = last THEN front
             ELSE Append(front, last)

\* Array.prototype.join
RECURSIVE Join(_, _)
Join(xs, d) ==
    IF xs = <<>> THEN ""
    ELSE IF Len(xs) = 1 THEN xs[1]
    ELSE xs[1] \o d \o Join(Tail(xs), d)

-----------------------------------------------------------------------------
(* normalizeUrl, server.js 71-77.                                          *)

\* s.replace(/^%20+/i, ''): "%2" followed by one or more "0".
StripPct20(s) ==
    IF StartsWith(s, "%20") THEN From(s, 3 + RunFrom(s, 3, {"0"})) ELSE s

\* s.replace(/^(https?:)\/{2,}/i, (_, p1) => `${p1}//`)
ProtocolLen(s) ==
    IF StartsWith(LowerStr(s), "http:") THEN 5
    ELSE IF StartsWith(LowerStr(s), "https:") THEN 6
    ELSE 0

\* p: the length of the protocol matched, n: the slashes that follow it.
ReplaceProtocolSlashes(s, p, n) ==
    IF p > 0 /\ n >= 2 THEN SubSeq(s, 1, p) \o "//" \o From(s, p + 1 + n) ELSE s

FixProtocol(s) == ReplaceProtocolSlashes(s, ProtocolLen(s), RunFrom(s, ProtocolLen(s) + 1, {"/"}))

\* s.replace(/([^:])\/{2,}/g, '$1/'): scan left to right, matches do not overlap.
RECURSIVE CollapseFrom(_, _)
CollapseFrom(s, i) ==
    IF i > Len(s) THEN ""
    ELSE LET n == RunFrom(s, i + 1, {"/"})
         IN  IF Ch(s, i) # ":" /\ n >= 2
             THEN Ch(s, i) \o "/" \o CollapseFrom(s, i + 1 + n)
             ELSE Ch(s, i) \o CollapseFrom(s, i + 1)

CollapseSlashes(s) == CollapseFrom(s, 1)

normalizeUrl(u) == CollapseSlashes(FixProtocol(TrimStart(StripPct20(Trim(u)))))

-----------------------------------------------------------------------------
(* JSON values.  k is the JavaScript type: "null" (null or undefined),     *)
(* "str", "num" (a non-negative integer, kept as its decimal digits),      *)
(* "bool", "arr", "obj" (keys in enumeration order).                       *)

Null == [k |-> "null"]
Str(s) == [k |-> "str", s |-> s]
Num(s) == [k |-> "num", s |-> s]
Bool(b) == [k |-> "bool", b |-> b]
Arr(items) == [k |-> "arr", items |-> items]
Obj(keys, vals) == [k |-> "obj", keys |-> keys, vals |-> vals]

\* An array of strings.
StrArr(xs) == Arr([i \in 1..Len(xs) |-> Str(xs[i])])

\* v[key] for a property name: undefined unless v is an object that has it.
Get(v, key) ==
    IF v.k = "obj" /\ \E i \in 1..Len(v.keys) : v.keys[i] = key
    THEN v.vals[CHOOSE i \in 1..Len(v.keys) : v.keys[i] = key]
    ELSE Null

\* 'key' in v
HasKey(v, key) == v.k = "obj" /\ \E i \in 1..Len(v.keys) : v.keys[i] = key

\* JavaScript truthiness.
Truthy(v) ==
    CASE v.k = "null" -> FALSE
      [] v.k = "str" -> v.s # ""
      [] v.k = "num" -> v.s # "0"
      [] v.k = "bool" -> v.b
      [] OTHER -> TRUE

\* String(v)
RECURSIVE StringOf(_)
StringOf(v) ==
    CASE v.k = "null" -> "null"
      [] v.k = "str" -> v.s
      [] v.k = "num" -> v.s
      [] v.k = "bool" -> (IF v.b THEN "true" ELSE "false")
      [] v.k = "arr" ->
            Join([i \in 1..Len(v.items) |->
                     IF v.items[i].k = "null" THEN "" ELSE StringOf(v.items[i])], ",")
      [] OTHER -> "[object Object]"

\* JSON.stringify of a string: quotes, with " \ and control characters escaped.
EscapeChar(c) ==
    CASE c = "\"" -> "\\\""
      [] c = "\\" -> "\\\\"
      [] c = "\n" -> "\\n"
      [] c = "\t" -> "\\t"
      [] c = "\r" -> "\\r"
      [] OTHER -> c

RECURSIVE EscapeStr(_)
EscapeStr(s) == IF s = "" THEN "" ELSE EscapeChar(Ch(s, 1)) \o EscapeStr(From(s, 2))

Quote(s) == "\"" \o EscapeStr(s) \o "\""

\* JSON.stringify
RECURSIVE JsonStringify(_)
JsonStringify(v) ==
    CASE v.k = "null" -> "null"
      [] v.k = "str" -> Quote(v.s)
      [] v.k = "num" -> v.s
      [] v.k = "bool" -> (IF v.b THEN "true" ELSE "false")
      [] v.k = "arr" ->
            "[" \o Join([i \in 1..Len(v.items) |-> JsonStringify(v.items[i])], ",") \o "]"
      [] OTHER ->
            "{" \o Join([i \in 1..Len(v.keys) |->
                            Quote(v.keys[i]) \o ":" \o JsonStringify(v.vals[i])], ",") \o "}"

\* JSON.parse, by recursive descent.  A result is [ok, v, next]: whether a value
\* was read at the given index, the value, and the index after it.  Numbers are
\* non-negative integers without sign, fraction or exponent, and the string
\* escapes are \" \\ \/ \n \t \r: the model's inputs use no others.
JsonWs == {" ", "\t", "\n", "\r"}
ParseFail == [ok |-> FALSE, v |-> Null, next |-> 0]
ParseOk(v, next) == [ok |-> TRUE, v |-> v, next |-> next]
SkipWs(s, i) == i + RunFrom(s, i, JsonWs)
DigitSet == {Ch(DigitChars, i) : i \in 1..Len(DigitChars)}

Unescape(c) ==
    CASE c = "n" -> "\n"
      [] c = "t" -> "\t"
      [] c = "r" -> "\r"
      [] OTHER -> c

\* The characters of a string literal from index j on, up to its closing quote.
RECURSIVE ScanString(_, _, _)
ScanString(s, j, acc) ==
    IF j > Len(s) THEN ParseFail
    ELSE LET c == Ch(s, j) IN
         IF c = "\"" THEN ParseOk(Str(acc), j + 1)
         ELSE IF c = "\\"
         THEN IF j + 1 <= Len(s) /\ Ch(s, j + 1) \in {"\"", "\\", "/", "n", "t", "r"}
              THEN ScanString(s, j + 2, acc \o Unescape(Ch(s, j + 1)))
              ELSE ParseFail
         ELSE IF c \in {"\n", "\t", "\r"} THEN ParseFail
         ELSE ScanString(s, j + 1, acc \o c)

ParseNumber(s, i) ==
    LET n == RunFrom(s, i, DigitSet)
    IN  IF n = 0 \/ (n > 1 /\ Ch(s, i) = "0") THEN ParseFail
        ELSE ParseOk(Num(SubSeq(s, i, i + n - 1)), i + n)

ParseLiteral(s, i, word, v) ==
    IF SubSeq(s, i, i + Len(word) - 1) = word /\ i + Len(word) - 1 <= Len(s)
    THEN ParseOk(v, i + Len(word)) ELSE ParseFail

\* The character at index j, "" past the end.
At(s, j) == IF j <= Len(s) THEN Ch(s, j) ELSE ""

RECURSIVE ParseValue(_, _), ParseElems(_, _, _), ParseMembers(_, _, _, _)
RECURSIVE AfterElem(_, _, _, _), AfterMember(_, _, _, _, _, _)

\* A value whose first character c is at index i; j is the index of what
\* follows an opening bracket or brace.
ValueAt(s, i, c, j) ==
    CASE c = "\"" -> ScanString(s, i + 1, "")
      [] c = "[" -> IF At(s, j) = "]" THEN ParseOk(Arr(<<>>), j + 1)
                    ELSE ParseElems(s, j, <<>>)
      [] c = "{" -> IF At(s, j) = "}" THEN ParseOk(Obj(<<>>, <<>>), j + 1)
                    ELSE ParseMembers(s, j, <<>>, <<>>)
      [] c = "t" -> ParseLiteral(s, i, "true", Bool(TRUE))
      [] c = "f" -> ParseLiteral(s, i, "false", Bool(FALSE))
      [] c = "n" -> ParseLiteral(s, i, "null", Null)
      [] c \in DigitSet -> ParseNumber(s, i)
      [] OTHER -> ParseFail

ValueFrom(s, i) == ValueAt(s, i, At(s, i), SkipWs(s, i + 1))

\* A value starting at index i0 (leading whitespace skipped).
ParseValue(s, i0) == ValueFrom(s, SkipWs(s, i0))

\* The elements of an array from index i on, after "[" or ",": e is the
\* element read there, j the index of what follows it.
AfterElem(s, e, j, acc) ==
    IF ~e.ok THEN ParseFail
    ELSE CASE At(s, j) = "," -> ParseElems(s, j + 1, Append(acc, e.v))
           [] At(s, j) = "]" -> ParseOk(Arr(Append(acc, e.v)), j + 1)
           [] OTHER -> ParseFail

NextOf(s, e) == IF e.ok THEN SkipWs(s, e.next) ELSE 0

ElemAt(s, e, acc) == AfterElem(s, e, NextOf(s, e), acc)

ParseElems(s, i, acc) == ElemAt(s, ParseValue(s, i), acc)

\* keys and vals with key set to v: a repeated key keeps its first position
\* and takes the last value.
PutKey(keys, key) ==
    IF \E h \in 1..Len(keys) : keys[h] = key THEN keys ELSE Append(keys, key)

PutVal(keys, vals, key, v) ==
    IF \E h \in 1..Len(keys) : keys[h] = key
    THEN [h \in 1..Len(vals) |-> IF keys[h] = key THEN v ELSE vals[h]]
    ELSE Append(vals, v)

\* After the member key: e, with j the index of what follows it.
AfterMember(s, key, e, j, keys, vals) ==
    IF ~e.ok THEN ParseFail
    ELSE CASE At(s, j) = "," ->
                ParseMembers(s, j + 1, PutKey(keys, key), PutVal(keys, vals, key, e.v))
           [] At(s, j) = "}" ->
                ParseOk(Obj(PutKey(keys, key), PutVal(keys, vals, key, e.v)), j + 1)
           [] OTHER -> ParseFail

MemberValue(s, key, e, keys, vals) == AfterMember(s, key, e, NextOf(s, e), keys, vals)

\* After the key read as a string literal, with c0 the index of what follows.
AfterKey(s, key, c0, keys, vals) ==
    IF ~key.ok \/ At(s, c0) # ":" THEN ParseFail
    ELSE MemberValue(s, key.v.s, ParseValue(s, c0 + 1), keys, vals)

KeyAt(s, key, keys, vals) == AfterKey(s, key, NextOf(s, key), keys, vals)

MemberFrom(s, i, keys, vals) ==
    KeyAt(s, IF At(s, i) = "\"" THEN ScanString(s, i + 1, "") ELSE ParseFail, keys, vals)

\* The members of an object from index i0 on, after "{" or ",".
ParseMembers(s, i0, keys, vals) == MemberFrom(s, SkipWs(s, i0), keys, vals)

\* JSON.parse(s): ok is FALSE where JSON.parse throws.
WholeText(s, r) == IF r.ok /\ SkipWs(s, r.next) = Len(s) + 1 THEN r ELSE ParseFail

JsonParse(s) == WholeText(s, ParseValue(s, 1))

-----------------------------------------------------------------------------
(* pickAttachmentUrl, server.js 64-68: a value, Null for "none".           *)

\* /^https?:\/\//i.test(s)
IsHttpUrl(s) ==
    StartsWith(LowerStr(s), "http://") \/ StartsWith(LowerStr(s), "https://")

\* a || b
OrElse(a, b) == IF Truthy(a) THEN a ELSE b

pickAttachmentUrl(att) ==
    IF ~Truthy(att) THEN Null
    ELSE IF att.k = "str" THEN (IF IsHttpUrl(att.s) THEN att ELSE Null)
    ELSE OrElse(Get(Get(Get(att, "thumbnails"), "large"), "url"),
         OrElse(Get(Get(Get(att, "thumbnails"), "full"), "url"),
         OrElse(Get(att, "url"), Null)))

\* normalizeUrl applied to a value: String(u || '').
normalizeUrlOf(v) == normalizeUrl(IF Truthy(v) THEN StringOf(v) ELSE "")

-----------------------------------------------------------------------------
(* collectPhotoUrls, server.js 80-126.                                     *)

RECURSIVE Flatten(_)
Flatten(xss) == IF xss = <<>> THEN <<>> ELSE xss[1] \o Flatten(Tail(xss))

\* What one attachment-like value adds to the set: its normalized URL, if any.
AddUrl(maybe) == IF Truthy(maybe) THEN <<normalizeUrlOf(maybe)>> ELSE <<>>

AddPicked(v) == AddUrl(pickAttachmentUrl(v))

\* server.js 106: s.includes(',') ? s.split(',') : [s]
CommaParts(s) == IF Includes(s, ",") THEN SplitOn(s, ",") ELSE <<s>>

LooksLikeJson(s) ==
    \/ StartsWith(s, "[") /\ EndsWith(s, "]")
    \/ StartsWith(s, "{") /\ EndsWith(s, "}")

\* pushAny: the URLs added while walking v, in the order they are added.
RECURSIVE pushAny(_), pushParsed(_, _)

\* server.js 105-111: the parts of a string that is not read as JSON.
PushParts(parts) == Flatten([i \in 1..Len(parts) |-> AddPicked(Str(parts[i]))])

\* server.js 95-111: the trimmed string s, with what JSON.parse made of it
\* when it looks like JSON (a failure when it does not).
pushParsed(s, parsed) ==
    IF parsed.ok THEN pushAny(parsed.v) ELSE PushParts(CommaParts(s))

PushString(s) == pushParsed(s, IF LooksLikeJson(s) THEN JsonParse(s) ELSE ParseFail)

pushAny(v) ==
    CASE v.k = "null" -> <<>>
      [] v.k = "arr" -> Flatten([i \in 1..Len(v.items) |-> pushAny(v.items[i])])
      [] v.k = "str" -> PushString(Trim(v.s))
      [] v.k = "obj" ->
            IF Truthy(Get(v, "url")) \/ Truthy(Get(v, "thumbnails"))
            THEN AddPicked(v)
            ELSE Flatten([i \in 1..Len(v.vals) |-> pushAny(v.vals[i])])
      [] OTHER -> <<>>

collectPhotoUrls(value) == Dedup(pushAny(value))

-----------------------------------------------------------------------------
(* normalizeLeaders, server.js 129-172.                                    *)

\* t.replace(/^(\[|\]+|"+|'+)|(\[|\]+|"+|'+)$/g, ''): at the start one "[" or a
\* run of one of ] " ' is removed, and the same at the end of what is left.
StripGroupLen(c, run) ==
    IF c = "[" THEN 1
    ELSE IF c \in {"]", "\"", "'"} THEN run
    ELSE 0

StripLeading(t) ==
    IF t = "" THEN t
    ELSE From(t, 1 + StripGroupLen(Ch(t, 1), RunFrom(t, 1, {Ch(t, 1)})))

StripTrailing(t) ==
    IF t = "" THEN t
    ELSE SubSeq(t, 1, Len(t) - StripGroupLen(Ch(t, Len(t)), RunBack(t, Len(t), {Ch(t, Len(t))})))

StripQuotesBrackets(t) == StripTrailing(StripLeading(t))

\* t.replace(/\s+/g, ' ')
RECURSIVE CollapseWsFrom(_, _)
CollapseWsFrom(t, i) ==
    IF i > Len(t) THEN ""
    ELSE LET n == RunFrom(t, i, WhiteSpace)
         IN  IF n > 0 THEN " " \o CollapseWsFrom(t, i + n)
             ELSE Ch(t, i) \o CollapseWsFrom(t, i + 1)

CollapseWs(t) == CollapseWsFrom(t, 1)

RecordIdSuffixLen == 14

\* "rec" followed by 12 alphanumerics.
IsRecordId_Suffix12(t) ==
    /\ Len(t) = 15
    /\ SubSeq(t, 1, 3) = "rec"
    /\ \A i \in 4..Len(t) :
          IsIn(Ch(t, i), LowerAlpha) \/ IsIn(Ch(t, i), UpperAlpha) \/ IsIn(Ch(t, i), DigitChars)

\* /^rec[a-zA-Z0-9]{14}$/.test(t)
IsRecordId(t) ==
    /\ Len(t) = 3 + RecordIdSuffixLen
    /\ SubSeq(t, 1, 3) = "rec"
    /\ \A i \in 4..Len(t) :
          IsIn(Ch(t, i), LowerAlpha) \/ IsIn(Ch(t, i), UpperAlpha) \/ IsIn(Ch(t, i), DigitChars)

\* The token pushClean derives from a non-null value, before the tests that
\* decide whether it is pushed.
CleanToken(v) == Trim(CollapseWs(StripQuotesBrackets(Trim(StringOf(v)))))

\* pushClean: what it appends to parts (nothing, or one token).
\* server.js 137-138: the cleaned token is dropped when it is a record id or empty.
PushToken(t) == IF IsRecordId(t) \/ t = "" THEN <<>> ELSE <<t>>

pushClean(v) == IF v.k = "null" THEN <<>> ELSE PushToken(CleanToken(v))

\* x.replace(/^"+|"+$/g, '')
StripTrailingQuotes(a) == SubSeq(a, 1, Len(a) - RunBack(a, Len(a), {"\""}))

StripDoubleQuotes(x) == StripTrailingQuotes(From(x, 1 + RunFrom(x, 1, {"\""})))

\* xs.forEach(pushClean) for strings xs
PushEach(xs) == Flatten([i \in 1..Len(xs) |-> pushClean(Str(xs[i]))])

\* server.js 146: v.split('","').forEach((x) => pushClean(x.replace(/^"+|"+$/g, '')))
PushQuotedPieces(xs) ==
    Flatten([i \in 1..Len(xs) |-> pushClean(Str(StripDoubleQuotes(xs[i])))])

\* One element of an array value, server.js 142-150.
LeaderElement(v) ==
    IF v.k = "obj" /\ HasKey(v, "name") THEN pushClean(Get(v, "name"))
    ELSE IF v.k = "str" /\ Includes(v.s, "\",\"") THEN PushQuotedPieces(SplitOn(v.s, "\",\""))
    ELSE pushClean(v)

\* server.js 162 and 165: text.split(/[;,]/).forEach((s) => pushClean(s))
SplitSemicolonComma(text) == PushEach(SplitAny(text, {";", ","}))

\* server.js 153-166: the trimmed text, with what JSON.parse made of it when it
\* starts with "[" and ends with "]" (a failure when it does not).
LeaderText(text, parsed) ==
    IF parsed.ok
    THEN IF parsed.v.k = "arr"
         THEN Flatten([i \in 1..Len(parsed.v.items) |-> pushClean(parsed.v.items[i])])
         ELSE pushClean(parsed.v)
    ELSE SplitSemicolonComma(text)

LeaderTrimmed(text) ==
    LeaderText(text, IF StartsWith(text, "[") /\ EndsWith(text, "]")
                     THEN JsonParse(text) ELSE ParseFail)

\* A string value, server.js 151-166.
LeaderString(value) == LeaderTrimmed(Trim(value.s))

\* The parts array when normalizeLeaders returns.
LeaderParts(value) ==
    CASE value.k = "arr" ->
            Flatten([i \in 1..Len(value.items) |-> LeaderElement(value.items[i])])
      [] value.k = "str" -> LeaderString(value)
      [] value.k = "null" -> <<>>
      [] OTHER -> pushClean(value)

normalizeLeaders(value) == Join(Dedup(LeaderParts(value)), ", ")

-----------------------------------------------------------------------------
(* normalizeTextField, server.js 175-202.                                  *)

\* a ?? b
Coalesce(a, b) == IF a.k = "null" THEN b ELSE a

\* What a scalar adds to out: String(v).trim(), unless empty.
PushNonEmpty(t) == IF t = "" THEN <<>> ELSE <<t>>

PushTrimmed(v) == PushNonEmpty(Trim(StringOf(v)))

RECURSIVE textPushAny(_), textPushObject(_, _)

\* server.js 187: v.email ?? v.text ?? v.name ?? v.value ?? null
Candidate(v) ==
    Coalesce(Get(v, "email"), Coalesce(Get(v, "text"),
    Coalesce(Get(v, "name"), Get(v, "value"))))

\* server.js 188-193
textPushObject(v, cand) ==
    IF cand.k # "null" THEN PushTrimmed(cand)
    ELSE Flatten([i \in 1..Len(v.vals) |-> textPushAny(v.vals[i])])

textPushAny(v) ==
    CASE v.k = "null" -> <<>>
      [] v.k = "arr" -> Flatten([i \in 1..Len(v.items) |-> textPushAny(v.items[i])])
      [] v.k = "obj" -> textPushObject(v, Candidate(v))
      [] OTHER -> PushTrimmed(v)

normalizeTextField(value) == Join(Dedup(textPushAny(value)), ", ")

-----------------------------------------------------------------------------
(* parseGeometry, server.js 53-61: the geometry, or Null.                  *)

\* The parsed value whether or not it carries a type.
TypedOrNull_AnyObject(parsed) == IF parsed.ok THEN parsed.v ELSE Null

\* server.js 57: g?.type ? g : null, and null when JSON.parse threw.
TypedOrNull(parsed) ==
    IF parsed.ok /\ Truthy(Get(parsed.v, "type")) THEN parsed.v ELSE Null

parseGeometry(raw) ==
    IF ~Truthy(raw) THEN Null
    ELSE TypedOrNull(IF raw.k = "str" THEN JsonParse(raw.s) ELSE ParseOk(raw, 0))

-----------------------------------------------------------------------------
(* The Feature of one record, server.js 301-374.                           *)

MaxSlots == 6

\* The list as it is, however long.
Slice6_All(xs) == xs

\* xs.slice(0, 6)
Slice6(xs) == SubSeq(xs, 1, IF Len(xs) < MaxSlots THEN Len(xs) ELSE MaxSlots)

\* server.js 311-315 and 327-331
isAttachmentArray(field) ==
    /\ field.k = "arr"
    /\ Len(field.items) > 0
    /\ field.items[1].k \in {"obj", "arr", "null"}
    /\ Truthy(Get(field.items[1], "url")) \/ Truthy(Get(field.items[1], "thumbnails"))

\* `${baseUrl}/img/${r.id}/${idx}`, idx counted from 0
ProxyUrl(baseUrl, route, id, idx) ==
    baseUrl \o "/" \o route \o "/" \o StringOf(id) \o "/" \o Ch(DigitChars, idx + 1)

\* urls.map(normalizeUrl)
NormalizeEach(urls) == [i \in 1..Len(urls) |-> normalizeUrl(urls[i])]

\* server.js 317-322 and 333-338: the URLs of a Photo or Image field.
FieldUrls(field, baseUrl, route, id) ==
    IF isAttachmentArray(field)
    THEN [i \in 1..Len(Slice6(field.items)) |-> ProxyUrl(baseUrl, route, id, i - 1)]
    ELSE Slice6(Dedup(NormalizeEach(collectPhotoUrls(field))))

\* const [photo1 = '', ..., photo6 = ''] = photoUrls
Slots(urls) == [i \in 1..MaxSlots |-> IF i <= Len(urls) THEN urls[i] ELSE ""]

\* photoUrls.filter(Boolean).length
CountNonEmpty(urls) == Cardinality({i \in 1..Len(urls) : urls[i] # ""})

\* server.js 304-373: the object returned for record id with fields f, given
\* its geometry and the URLs of its Photo and Image fields.
BuildFeature(id, f, geometry, photoUrls, imageUrls) ==
        IF ~Truthy(geometry) THEN Null
        ELSE [k |-> "feature",
              geometry |-> geometry,
              id |-> id,
              name |-> Coalesce(Get(f, "Network Name"), Str("")),
              leaders |-> normalizeLeaders(Get(f, "Network Leaders Names")),
              contact_email |-> normalizeTextField(
                  Coalesce(Get(f, "contact email"),
                  Coalesce(Get(f, "Contact Email"), Get(f, "Contact email")))),
              status |-> normalizeTextField(Get(f, "Status")),
              county |-> normalizeTextField(Get(f, "County")),
              tags |-> normalizeTextField(Get(f, "Tags")),
              number_of_churches |-> Coalesce(Get(f, "Number of Churches"), Str("")),
              photos |-> Slots(photoUrls),
              photo_count |-> CountNonEmpty(photoUrls),
              images |-> Slots(imageUrls),
              image_count |-> CountNonEmpty(imageUrls)]

\* server.js 302: r.fields || {}
FieldsOf(r) == OrElse(Get(r, "fields"), Obj(<<>>, <<>>))

FeatureOf(id, f, baseUrl) ==
    BuildFeature(id, f, parseGeometry(Get(f, "Polygon")),
                 FieldUrls(Get(f, "Photo"), baseUrl, "img", id),
                 FieldUrls(Get(f, "Image"), baseUrl, "image", id))

\* The object the map callback returns for record r, Null when it returns null.
Feature(r, baseUrl) == FeatureOf(Get(r, "id"), FieldsOf(r), baseUrl)

\* .filter(Boolean) on one mapped record
KeepFeature(ft) == IF ft.k = "null" THEN <<>> ELSE <<ft>>

\* networkRecords.map(...).filter(Boolean)
RECURSIVE Features(_, _)
Features(records, baseUrl) ==
    IF records = <<>> THEN <<>>
    ELSE KeepFeature(Feature(records[1], baseUrl)) \o Features(Tail(records), baseUrl)

-----------------------------------------------------------------------------
(* Spec: GET /networks.geojson, server.js 296-382, with the pagination     *)
(* loop of fetchAllRecords, server.js 23-42.  Upstream answers each page   *)
(* request with a batch of records and an optional continuation token, or  *)
(* with a non-success status.                                              *)

MaxRecs == 2      \* records upstream serves to one request

PolygonText == "{\"type\":\"Polygon\",\"coordinates\":[]}"
PointObject == Obj(<<"type", "coordinates">>, <<Str("Point"), Arr(<<Num("1"), Num("2")>>)>>)

\* Polygon fields that parse into an object carrying a (non-empty) type tag.
GoodPolygons == {Str(PolygonText), PointObject}

\* Absent, not JSON, JSON without a type tag, JSON null, an empty type tag.
BadPolygons ==
    {Null, Str("not json"), Str("{\"coordinates\":[]}"), Str("null"),
     Obj(<<"type">>, <<Str("")>>)}

Attachment(url) == Obj(<<"url">>, <<Str(url)>>)

PhotoOf(id) ==
    IF id = "recA"
    THEN Arr(<<Attachment("https://dl.at/p1"), Attachment("https://dl.at/p2")>>)
    ELSE Str("http://a.com//x.png,http://b.org/y")

LeadersOf(id) ==
    IF id = "recA"
    THEN Arr(<<Obj(<<"name">>, <<Str("A")>>), Obj(<<"name">>, <<Str("B")>>)>>)
    ELSE Null

Record(id, polygon) ==
    Obj(<<"id", "fields">>,
        <<Str(id),
          Obj(<<"Polygon", "Photo", "Network Leaders Names">>,
              <<polygon, PhotoOf(id), LeadersOf(id)>>)>>)

\* recA with every kind of Polygon, recB with a good one and with "not json".
RecordPool ==
    {Record("recA", p) : p \in GoodPolygons \cup BadPolygons}
        \cup {Record("recB", p) : p \in {Str(PolygonText), Str("not json")}}

\* data.records of a page: empty or one record.
Batches == {<<>>} \cup {<<r>> : r \in RecordPool}

\* Continuation tokens; "" is a page without one.
Tokens == {"", "itrA", "itrB"}

FailureStatuses == {"401", "503"}

\* server.js 205-209: what getBaseUrl gives for the requests modelled.
BaseUrls == {"https://h.io"}

\* server.js 38: if (data.records?.length) all.push(...data.records)
PushRecords(all, records) == IF Len(records) > 0 THEN all \o records ELSE all

\* server.js 39: whether the loop goes on after a page with this token.
LoopContinues(offset) == offset # ""

\* server.js 35: the message of the Error thrown for a non-success page.
ErrorMessage(status, text) == "Airtable error " \o status \o ": " \o text

\* server.js 376-377: the response after fetchAllRecords returned.
CollectionResponse(all, baseUrl) ==
    [status |-> 200, features |-> Features(all, baseUrl), error |-> ""]

\* A 500 whose body carries the features of the records fetched so far.
ErrorResponse_Partial(all, baseUrl, message) ==
    [status |-> 500, features |-> Features(all, baseUrl), error |-> message]

\* server.js 378-381: the response after fetchAllRecords threw.  The records
\* fetched so far (all) are lost with the frame of fetchAllRecords.
ErrorResponse(all, baseUrl, message) ==
    [status |-> 500, features |-> <<>>, error |-> message]

HandlerInit ==
    /\ hPc = "idle" /\ hBase = "" /\ hAll = <<>> /\ hOffset = "" /\ hReqOffset = ""
    /\ hResp = NoResponse /\ upServed = <<>> /\ upFailed = 0
    /\ UrlIdle /\ CollectIdle /\ LeadersIdle /\ PhotoIdle /\ ProxyIdle /\ RaceIdle
    /\ TokensIdle

\* The request arrives: the handler calls fetchAllRecords, which requests the
\* first page without an offset parameter.
HandlerStart ==
    /\ hPc = "idle"
    /\ \E b \in BaseUrls : hBase' = b
    /\ hPc' = "await"
    /\ hAll' = <<>>
    /\ hOffset' = ""
    /\ hReqOffset' = ""
    /\ UNCHANGED <<hResp, upServed, upFailed>>
    /\ UNCHANGED notHandler

\* Upstream answers the page request with success.
PageOk ==
    /\ hPc = "await"
    /\ \E batch \in Batches : \E token \in Tokens :
          /\ Len(upServed) + Len(batch) <= MaxRecs
          /\ upServed' = upServed \o batch
          /\ hAll' = PushRecords(hAll, batch)
          /\ IF LoopContinues(token)
             THEN /\ hOffset' = token
                  /\ hReqOffset' = token
                  /\ UNCHANGED <<hPc, hResp>>
             ELSE /\ hPc' = "done"
                  /\ hResp' = CollectionResponse(PushRecords(hAll, batch), hBase)
                  /\ UNCHANGED <<hOffset, hReqOffset>>
    /\ UNCHANGED <<hBase, upFailed>>
    /\ UNCHANGED notHandler

\* Upstream answers the page request with a non-success status.
PageFail ==
    /\ hPc = "await"
    /\ \E status \in FailureStatuses :
          hResp' = ErrorResponse(hAll, hBase, ErrorMessage(status, "denied"))
    /\ hPc' = "done"
    /\ upFailed' = upFailed + 1
    /\ UNCHANGED <<hBase, hAll, hOffset, hReqOffset, upServed>>
    /\ UNCHANGED notHandler

\* The next request to the endpoint.
HandlerReset ==
    /\ hPc = "done"
    /\ hPc' = "idle"
    /\ hBase' = "" /\ hAll' = <<>> /\ hOffset' = "" /\ hReqOffset' = ""
    /\ hResp' = NoResponse /\ upServed' = <<>> /\ upFailed' = 0
    /\ UNCHANGED notHandler

Next == HandlerStart \/ PageOk \/ PageFail \/ HandlerReset

Spec == HandlerInit /\ [][Next]_vars

\* The handler and upstream keep answering while a request is open.
FairSpec == Spec /\ WF_vars(Next)

\* The Polygon field of a served record.
PolygonOf(r) == Get(Get(r, "fields"), "Polygon")

\* The geometry a served record is expected to carry: the object its Polygon
\* field spells.
ExpectedGeometry(r) ==
    IF PolygonOf(r) = Str(PolygonText)
    THEN Obj(<<"type", "coordinates">>, <<Str("Polygon"), Arr(<<>>)>>)
    ELSE PolygonOf(r)

\* The served records whose Polygon field is a type-tagged object, in order.
TypeTagged(records) == SelectSeq(records, LAMBDA r : PolygonOf(r) \in GoodPolygons)

\* C1: a 200 response of GET /networks.geojson holds exactly one Feature per
\* served record whose Polygon field parses into a non-null object with a type
\* tag, in upstream order, each one the Feature that record gives on its own,
\* and no Feature for any other record.
C1_OneFeaturePerGeometry ==
    (hPc = "done" /\ hResp.status = 200) =>
        /\ Len(hResp.features) = Len(TypeTagged(upServed))
        /\ \A i \in 1..Len(hResp.features) :
              /\ hResp.features[i].id = Get(TypeTagged(upServed)[i], "id")
              /\ hResp.features[i].geometry = ExpectedGeometry(TypeTagged(upServed)[i])
              /\ hResp.features[i] = Feature(TypeTagged(upServed)[i], hBase)

\* A 200 response over a record with a Polygon of "not json" followed by a
\* record with a type-tagged Polygon.
C1_Witness ==
    /\ hPc = "done" /\ hResp.status = 200
    /\ Len(upServed) = 2
    /\ PolygonOf(upServed[1]) = Str("not json")
    /\ PolygonOf(upServed[2]) \in GoodPolygons
    /\ Len(hResp.features) = 1
    /\ hResp.features[1].id = Get(upServed[2], "id")

\* C5: once a page request was answered with a non-success status the
\* response is a 500 carrying the error message and no Feature, and no further
\* page is requested; every response is either that error or a 200 with the
\* Features of all the records served.
C5_FailureIsWholeError ==
    /\ upFailed > 0 =>
          /\ hPc = "done" /\ upFailed = 1
          /\ hResp.status = 500 /\ hResp.features = <<>>
          /\ hResp.error \in {ErrorMessage(st, "denied") : st \in FailureStatuses}
    /\ hPc = "done" =>
          \/ hResp.status = 500 /\ upFailed = 1
          \/ /\ hResp.status = 200 /\ upFailed = 0 /\ hResp.error = ""
             /\ hResp.features = Features(upServed, hBase)

\* A 500 after a page that served a record with a type-tagged Polygon.
C5_Witness ==
    /\ hPc = "done" /\ hResp.status = 500 /\ upFailed = 1
    /\ Len(upServed) > 0
    /\ PolygonOf(upServed[1]) \in GoodPolygons
    /\ hResp.features = <<>>

\* C10: every collection request that is waiting for a page eventually
\* completes with a response.
C10_Terminates == (hPc = "await") ~> (hPc = "done")

-----------------------------------------------------------------------------
(* SpecUrl: normalizeUrl applied to URLs assembled from a few pieces.      *)

MaxUrlPieces == 5

UrlPieces == {"%20", " ", "http:", "HTTPS:", "/", "a"}

UrlInit == uIn = "" /\ uN = 0 /\ uOut = "" /\ uPhase = "build"
           /\ CollectIdle /\ LeadersIdle /\ HandlerIdle /\ PhotoIdle /\ ProxyIdle /\ RaceIdle
           /\ TokensIdle

UrlAppend ==
    /\ uPhase = "build"
    /\ uN < MaxUrlPieces
    /\ \E p \in UrlPieces : uIn' = uIn \o p
    /\ uN' = uN + 1
    /\ UNCHANGED <<uOut, uPhase>>
    /\ UNCHANGED notUrl

UrlNormalize ==
    /\ uPhase = "build"
    /\ uOut' = normalizeUrl(uIn)
    /\ uPhase' = "done"
    /\ UNCHANGED <<uIn, uN>>
    /\ UNCHANGED notUrl

UrlNext == UrlAppend \/ UrlNormalize

SpecUrl == UrlInit /\ [][UrlNext]_vars

\* C6: normalizeUrl is idempotent: a second pass over its output changes nothing.
C6_Idempotent == uPhase = "done" => normalizeUrl(uOut) = uOut

-----------------------------------------------------------------------------
(* SpecLeaders: normalizeLeaders on arrays assembled from a pool of        *)
(* elements and on strings; its output is normalized a second time.        *)

MaxLeaders == 2

RefId14 == "rec1234567890ABCD"   \* "rec" and 14 alphanumerics, as upstream ids are
RefId12 == "rec1234567890AB"     \* "rec" and 12 alphanumerics

LeaderPool ==
    {Str("Jane Doe"), Str(RefId12), Str(RefId14), Str("'" \o RefId14 \o "'"),
     Str("a;b"), Str("\"'Al'\""), Str("x\",\"y"), Str(" Bo  Li "), Str("[[c]]"),
     Obj(<<"name">>, <<Str("Ann")>>)}

LeaderStrings ==
    {"Jane Doe; Bo Li", "[\"x\", \"y\"]", "a,b;a", "[a, b]", RefId14 \o ", Al"}

LeadersInit == lIn = Arr(<<>>) /\ lOut = <<>> /\ lPhase = "build"
               /\ UrlIdle /\ CollectIdle /\ HandlerIdle /\ PhotoIdle /\ ProxyIdle /\ RaceIdle
               /\ TokensIdle

LeadersAdd ==
    /\ lPhase = "build"
    /\ lIn.k = "arr"
    /\ Len(lIn.items) < MaxLeaders
    /\ \E e \in LeaderPool : lIn' = Arr(Append(lIn.items, e))
    /\ UNCHANGED <<lOut, lPhase>>
    /\ UNCHANGED notLeaders

LeadersString ==
    /\ lPhase = "build"
    /\ lIn = Arr(<<>>)
    /\ \E t \in LeaderStrings : lIn' = Str(t)
    /\ UNCHANGED <<lOut, lPhase>>
    /\ UNCHANGED notLeaders

LeadersRun ==
    /\ lPhase = "build"
    /\ lOut' = [text |-> normalizeLeaders(lIn),
                parts |-> Dedup(LeaderParts(lIn)),
                again |-> normalizeLeaders(Str(normalizeLeaders(lIn)))]
    /\ lPhase' = "done"
    /\ UNCHANGED lIn
    /\ UNCHANGED notLeaders

LeadersNext == LeadersAdd \/ LeadersString \/ LeadersRun

SpecLeaders == LeadersInit /\ [][LeadersNext]_vars

IsStringArray(v) == v.k = "arr" /\ \A i \in 1..Len(v.items) : v.items[i].k = "str"

InParts(t) == \E i \in 1..Len(lOut.parts) : lOut.parts[i] = t

\* C7 as stated: normalizeLeaders(["rec1234567890AB", "Jane Doe"]) is "Jane Doe".
C7_ExampleDropped ==
    (lPhase = "done" /\ lIn = StrArr(<<RefId12, "Jane Doe">>)) => lOut.text = "Jane Doe"

\* C7 as amended: in an array of strings, an element whose cleaned token is "rec"
\* followed by exactly 14 alphanumerics is absent from the result and every other
\* non-empty cleaned element without the sequence "," is present; so
\* ["rec1234567890ABCD", "Jane Doe"] gives "Jane Doe", and the 12-character
\* suffix of "rec1234567890AB" is no record reference: it is kept.
C7_RefsDropped ==
    (lPhase = "done" /\ IsStringArray(lIn)) =>
        /\ \A i \in 1..Len(lIn.items) :
              LET t == CleanToken(lIn.items[i])
              IN  /\ t \in {RefId14} => ~InParts(t)
                  /\ (t \notin {RefId14, ""} /\ ~Includes(lIn.items[i].s, "\",\""))
                        => InParts(t)
        /\ lIn = StrArr(<<RefId14, "Jane Doe">>) => lOut.text = "Jane Doe"
        /\ lIn = StrArr(<<RefId12, "Jane Doe">>) => lOut.text = RefId12 \o ", Jane Doe"

C7_Witness ==
    lPhase = "done" /\ lIn = StrArr(<<RefId14, "Jane Doe">>) /\ lOut.text = "Jane Doe"

\* C9: normalizeLeaders is idempotent on its own output.
C9_Idempotent == lPhase = "done" => lOut.again = lOut.text

-----------------------------------------------------------------------------
(* SpecCollect: collectPhotoUrls on an array of http(s) URL strings and on *)
(* the JSON text of the same array.                                        *)

MaxUrls == 3

\* Plain, with a doubled slash, with an upper-case scheme, with a comma in the
\* path (an image-transformation URL), with a quote (escaped in JSON text).
UrlPool == {"http://a.com/x.png", "http://a.com//x.png", "HTTP://a.com/x.png",
            "https://b.org/y", "https://i.io/w_1,h_2/z.png", "http://d.e/q\"r"}

CollectInit == cArr = <<>> /\ cOut = <<>> /\ cPhase = "build"
               /\ UrlIdle /\ LeadersIdle /\ HandlerIdle /\ PhotoIdle /\ ProxyIdle /\ RaceIdle
               /\ TokensIdle

CollectAdd ==
    /\ cPhase = "build"
    /\ Len(cArr) < MaxUrls
    /\ \E u \in UrlPool : cArr' = Append(cArr, u)
    /\ UNCHANGED <<cOut, cPhase>>
    /\ UNCHANGED notCollect

CollectRun ==
    /\ cPhase = "build"
    /\ cOut' = [fromArray |-> collectPhotoUrls(StrArr(cArr)),
                fromJson |-> collectPhotoUrls(Str(JsonStringify(StrArr(cArr))))]
    /\ cPhase' = "done"
    /\ UNCHANGED cArr
    /\ UNCHANGED notCollect

CollectNext == CollectAdd \/ CollectRun

SpecCollect == CollectInit /\ [][CollectNext]_vars

\* C8: for an array of http(s) URL strings, the array and its JSON text give the
\* same list, and that list is the normalized URLs of the array, duplicates
\* removed, in first-discovery order.
C8_SameAndNormalized ==
    cPhase = "done" =>
        /\ cOut.fromArray = cOut.fromJson
        /\ cOut.fromArray = Dedup([i \in 1..Len(cArr) |-> normalizeUrl(cArr[i])])

-----------------------------------------------------------------------------
(* SpecPhoto: the Feature of one record whose Photo field holds up to      *)
(* MaxPhotos items, in each of the shapes upstream gives such a field.     *)

MaxPhotos == 8

\* An item is a URL not seen before in the field ("new"), another spelling of
\* the first URL ("dup") or an empty entry ("junk").
ItemKinds == {"new", "dup", "junk"}

PhotoShapes == {"attachments", "strings", "json", "commas", "wrapped"}

PhotoUrl(n) == "https://i.io/p" \o Ch(DigitChars, n + 1)

ItemUrl(kind, n) ==
    CASE kind = "new" -> PhotoUrl(n)
      [] kind = "dup" -> "https://i.io//p1"
      [] OTHER -> ""

ItemUrls(kinds) == [i \in 1..Len(kinds) |-> ItemUrl(kinds[i], i)]

\* The Photo field of the given shape over the items.
PhotoField(shape, kinds) ==
    CASE shape = "attachments" ->
            Arr([i \in 1..Len(kinds) |-> Attachment(ItemUrl(kinds[i], i))])
      [] shape = "strings" -> StrArr(ItemUrls(kinds))
      [] shape = "json" -> Str(JsonStringify(StrArr(ItemUrls(kinds))))
      [] shape = "commas" -> Str(Join(ItemUrls(kinds), ","))
      [] OTHER ->
            Obj(<<"list">>,
                <<Arr([i \in 1..Len(kinds) |-> Attachment(ItemUrl(kinds[i], i))])>>)

PhotoRecord(field) ==
    Obj(<<"id", "fields">>,
        <<Str("recA"), Obj(<<"Polygon", "Photo">>, <<PointObject, field>>)>>)

PhotoInit ==
    /\ pKinds = <<>> /\ pShape = "" /\ pOut = <<>> /\ pPhase = "build"
    /\ UrlIdle /\ CollectIdle /\ LeadersIdle /\ HandlerIdle /\ ProxyIdle /\ RaceIdle
    /\ TokensIdle

\* One more item in the field; a field holds at most one "dup" and one "junk".
PhotoAdd ==
    /\ pPhase = "build"
    /\ Len(pKinds) < MaxPhotos
    /\ \E kind \in ItemKinds :
          /\ kind # "new" => \A i \in 1..Len(pKinds) : pKinds[i] # kind
          /\ pKinds' = Append(pKinds, kind)
    /\ UNCHANGED <<pShape, pOut, pPhase>>
    /\ UNCHANGED notPhoto

\* The handler builds the Feature of the record.
PhotoBuild ==
    /\ pPhase = "build"
    /\ \E shape \in PhotoShapes :
          /\ pShape' = shape
          /\ pOut' = Feature(PhotoRecord(PhotoField(shape, pKinds)), "https://h.io")
    /\ pPhase' = "done"
    /\ UNCHANGED pKinds
    /\ UNCHANGED notPhoto

PhotoNext == PhotoAdd \/ PhotoBuild

SpecPhoto == PhotoInit /\ [][PhotoNext]_vars

\* The photo URLs a field is expected to resolve to, in discovery order: one
\* proxy link per attachment when the field is an array that starts with an
\* attachment, otherwise the canonical URLs of its items, each once.
ProxyMode(shape, kinds) ==
    shape = "attachments" /\ Len(kinds) > 0 /\ kinds[1] # "junk"

CanonicalItem(kind, n) ==
    CASE kind = "new" -> PhotoUrl(n)
      [] kind = "dup" -> PhotoUrl(1)
      [] OTHER -> ""

FirstSeen(kinds, i) ==
    /\ CanonicalItem(kinds[i], i) # ""
    /\ \A j \in 1..(i - 1) : CanonicalItem(kinds[j], j) # CanonicalItem(kinds[i], i)

KeptPositions(kinds) ==
    SelectSeq([i \in 1..Len(kinds) |-> i], LAMBDA i : FirstSeen(kinds, i))

ExpectedPhotoUrls(shape, kinds) ==
    IF ProxyMode(shape, kinds)
    THEN [i \in 1..Len(kinds) |-> "https://h.io/img/recA/" \o Ch(DigitChars, i)]
    ELSE [n \in 1..Len(KeptPositions(kinds)) |->
             CanonicalItem(kinds[KeptPositions(kinds)[n]], KeptPositions(kinds)[n])]

-----------------------------------------------------------------------------
(* SpecProxy: GET /img/:recordId/:index and GET /image/:recordId/:index,   *)
(* server.js 234-293, over urlCache, server.js 217-231.  Requests are      *)
(* served one after the other; the clock advances and upstream renews its  *)
(* attachment URLs at any time, also while fetchRecordById is awaited.     *)

MaxRequests == 2     \* requests that arrive
MaxTicks == 2        \* times the clock advances

\* server.js 218
CACHE_TTL_MS == 8 * 60 * 1000

TickSteps == {1, CACHE_TTL_MS}

Routes == {"img", "image"}

\* The field each route reads, server.js 240 and 271.
FieldOf(route) == IF route = "img" THEN "Photo" ELSE "Image"

ProxyRecordIds == {"recA", "recZ"}

\* The :index parameter as it comes in the path.
IndexTexts == {"0", "1", "2", "3", "-1", "x", "1.5"}

IsDigits(s) == Len(s) > 0 /\ \A i \in 1..Len(s) : IsIn(Ch(s, i), DigitChars)

DigitValue(c) == CHOOSE d \in 0..9 : Ch(DigitChars, d + 1) = c

RECURSIVE DigitsValue(_)
DigitsValue(s) ==
    IF s = "" THEN 0
    ELSE 10 * DigitsValue(SubSeq(s, 1, Len(s) - 1)) + DigitValue(Ch(s, Len(s)))

\* server.js 237-238: Number(index) and whether it is an integer.
NumberOf(index) ==
    IF IsDigits(index) THEN [isInteger |-> TRUE, n |-> DigitsValue(index)]
    ELSE IF StartsWith(index, "-") /\ IsDigits(From(index, 2))
    THEN [isInteger |-> TRUE, n |-> 0 - DigitsValue(From(index, 2))]
    ELSE [isInteger |-> FALSE, n |-> 0]

\* server.js 238: !Number.isInteger(idx) || idx < 0
BadIndex(num) == ~num.isInteger \/ num.n < 0

\* `${idx}` for a non-negative integer
RECURSIVE IntText(_)
IntText(n) ==
    IF n < 10 THEN Ch(DigitChars, n + 1)
    ELSE IntText(n \div 10) \o Ch(DigitChars, (n % 10) + 1)

\* A key that leaves out the field.
CacheKey_NoField(field, recordId, idx) == recordId \o ":" \o IntText(idx)

\* server.js 240 and 271: `Photo:${recordId}:${idx}`
CacheKey(field, recordId, idx) == field \o ":" \o recordId \o ":" \o IntText(idx)

CacheKeys ==
    {CacheKey(FieldOf(route), id, n) : route \in Routes, id \in ProxyRecordIds, n \in 0..3}

\* urlCache.get(key) of a key that is not in the map.
NoEntry == [url |-> "", expiresAt |-> 0]

\* server.js 223 with the reading "at or after the deadline".
Expired_AtDeadline(now, expiresAt) == now >= expiresAt

\* server.js 223: Date.now() > v.expiresAt
Expired(now, expiresAt) == now > expiresAt

\* server.js 220-228: the URL returned ("" for null) and the map afterwards.
getCached(cache, key, now) ==
    IF cache[key] = NoEntry THEN [url |-> "", cache |-> cache]
    ELSE IF Expired(now, cache[key].expiresAt)
    THEN [url |-> "", cache |-> [cache EXCEPT ![key] = NoEntry]]
    ELSE [url |-> cache[key].url, cache |-> cache]

\* An entry that is due the moment it is written.
setCached_NoTtl(cache, key, url, now) ==
    [cache EXCEPT ![key] = [url |-> url, expiresAt |-> now]]

\* server.js 229-231
setCached(cache, key, url, now) ==
    [cache EXCEPT ![key] = [url |-> url, expiresAt |-> now + CACHE_TTL_MS]]

\* The URLs upstream hands out in generation ver.
FreshUrl(name, ver) == "https://dl.at/" \o name \o "?v=" \o IntText(ver)

\* The record recA as fetchRecordById returns it: Photo holds an attachment,
\* an entry without URL and an attachment with a large thumbnail; Image holds
\* one attachment.
UpstreamRecord(ver) ==
    Obj(<<"id", "fields">>,
        <<Str("recA"),
          Obj(<<"Photo", "Image">>,
              <<Arr(<<Attachment(FreshUrl("p0", ver)),
                      Obj(<<"filename">>, <<Str("x.png")>>),
                      Obj(<<"url", "thumbnails">>,
                          <<Str(FreshUrl("p2", ver)),
                            Obj(<<"large">>,
                                <<Attachment(FreshUrl("p2-large", ver))>>)>>)>>),
                Arr(<<Attachment(FreshUrl("i0", ver))>>)>>)>>)

\* server.js 248-249: Array.isArray(rec.fields?.Photo) ? rec.fields.Photo : [],
\* then attachments[idx] (Null for undefined).
AttachmentAt(rec, field, idx) ==
    IF Get(Get(rec, "fields"), field).k = "arr"
       /\ idx + 1 <= Len(Get(Get(rec, "fields"), field).items)
    THEN Get(Get(rec, "fields"), field).items[idx + 1]
    ELSE Null

ProxyInit ==
    /\ xNow = 0 /\ xTicks = 0 /\ xCache = [k \in CacheKeys |-> NoEntry] /\ xVer = 1
    /\ xPc = "idle" /\ xReq = NoRequest /\ xResp = NoReply /\ xReqs = 0 /\ xFetches = 0
    /\ UrlIdle /\ CollectIdle /\ LeadersIdle /\ HandlerIdle /\ PhotoIdle /\ RaceIdle
    /\ TokensIdle

Reply(status, target) == [status |-> status, target |-> target]

\* server.js 241-245 and 247: a cache hit is answered at once; on a miss
\* fetchRecordById is called and awaited.  got is what getCached returned.
AfterGetCached(got) ==
    /\ xCache' = got.cache
    /\ IF got.url # ""
       THEN /\ xResp' = Reply(302, got.url)
            /\ xPc' = "done"
            /\ UNCHANGED xFetches
       ELSE /\ xResp' = NoReply
            /\ xPc' = "fetch"
            /\ xFetches' = xFetches + 1

\* server.js 236-247: the handler up to its first await.
Arrive(route, recordId, index, num) ==
    IF BadIndex(num)
    THEN /\ xReq' = [route |-> route, recordId |-> recordId, index |-> index,
                     idx |-> 0, key |-> "", at |-> xNow]
         /\ xResp' = Reply(400, "")
         /\ xPc' = "done"
         /\ UNCHANGED <<xCache, xFetches>>
    ELSE /\ xReq' = [route |-> route, recordId |-> recordId, index |-> index,
                     idx |-> num.n,
                     key |-> CacheKey(FieldOf(route), recordId, num.n), at |-> xNow]
         /\ AfterGetCached(getCached(xCache, CacheKey(FieldOf(route), recordId, num.n), xNow))

\* A request arrives once the previous one is answered.
ProxyRequest ==
    /\ xPc \in {"idle", "done"}
    /\ xReqs < MaxRequests
    /\ xReqs' = xReqs + 1
    /\ \E route \in Routes : \E recordId \in ProxyRecordIds : \E index \in IndexTexts :
          Arrive(route, recordId, index, NumberOf(index))
    /\ UNCHANGED <<xNow, xTicks, xVer>>
    /\ UNCHANGED notProxy

\* server.js 253-258: freshUrl is what pickAttachmentUrl made of the attachment.
AfterPick(freshUrl) ==
    IF ~Truthy(freshUrl)
    THEN xResp' = Reply(404, "") /\ UNCHANGED xCache
    ELSE /\ xCache' = setCached(xCache, xReq.key, freshUrl.s, xNow)
         /\ xResp' = Reply(302, freshUrl.s)

\* server.js 248-258: the handler after fetchRecordById returned rec.
AfterFetch(att) ==
    IF ~Truthy(att)
    THEN xResp' = Reply(404, "") /\ UNCHANGED xCache
    ELSE AfterPick(pickAttachmentUrl(att))

\* Upstream returns the record.
ProxyFetchOk ==
    /\ xPc = "fetch"
    /\ xReq.recordId = "recA"
    /\ AfterFetch(AttachmentAt(UpstreamRecord(xVer), FieldOf(xReq.route), xReq.idx))
    /\ xPc' = "done"
    /\ UNCHANGED <<xNow, xTicks, xVer, xReq, xReqs, xFetches>>
    /\ UNCHANGED notProxy

\* server.js 48 and 259-262: upstream answers with a non-success status (it
\* does so for a record it does not have), fetchRecordById throws.
ProxyFetchFail ==
    /\ xPc = "fetch"
    /\ xResp' = Reply(500, "")
    /\ xPc' = "done"
    /\ UNCHANGED <<xNow, xTicks, xCache, xVer, xReq, xReqs, xFetches>>
    /\ UNCHANGED notProxy

\* Time passes.
ProxyTick ==
    /\ xPc # "off"
    /\ xTicks < MaxTicks
    /\ \E step \in TickSteps : xNow' = xNow + step
    /\ xTicks' = xTicks + 1
    /\ UNCHANGED <<xCache, xVer, xPc, xReq, xResp, xReqs, xFetches>>
    /\ UNCHANGED notProxy

\* Upstream renews the URLs of its attachments.
ProxyRenew ==
    /\ xPc # "off"
    /\ xVer = 1
    /\ xVer' = 2
    /\ UNCHANGED <<xNow, xTicks, xCache, xPc, xReq, xResp, xReqs, xFetches>>
    /\ UNCHANGED notProxy

ProxyNext == ProxyRequest \/ ProxyFetchOk \/ ProxyFetchFail \/ ProxyTick \/ ProxyRenew

SpecProxy == ProxyInit /\ [][ProxyNext]_vars

\* The URL a request is expected to be redirected to when upstream is in
\* generation ver, "" when the index has no attachment or the attachment no URL.
ExpectedTarget(req, ver) ==
    CASE req.recordId = "recA" /\ req.route = "img" /\ req.idx = 0 -> FreshUrl("p0", ver)
      [] req.recordId = "recA" /\ req.route = "img" /\ req.idx = 2 -> FreshUrl("p2-large", ver)
      [] req.recordId = "recA" /\ req.route = "image" /\ req.idx = 0 -> FreshUrl("i0", ver)
      [] OTHER -> ""

\* C3: a request for a key that was cached by an earlier 302 is, up to 8
\* minutes after that write, answered 302 to the cached target without a call
\* of fetchRecordById; after that it causes exactly one call, and the 302 that
\* follows a call stores its target for 8 minutes from the write.
C3_CachedWithinTtl ==
    [][/\ (xReqs' = xReqs + 1 /\ xReq'.key # "" /\ xCache[xReq'.key] # NoEntry) =>
            IF xNow <= xCache[xReq'.key].expiresAt
            THEN /\ xPc' = "done"
                 /\ xResp' = [status |-> 302, target |-> xCache[xReq'.key].url]
                 /\ xFetches' = xFetches
                 /\ xCache' = xCache
            ELSE /\ xPc' = "fetch"
                 /\ xFetches' = xFetches + 1
       /\ (xPc = "fetch" /\ xPc' = "done") =>
            /\ xFetches' = xFetches
            /\ xResp'.status = 302 =>
                  /\ xCache'[xReq.key].url = xResp'.target
                  /\ xCache'[xReq.key].expiresAt = xNow + 480000
      ]_vars

\* A second request that arrives exactly 8 minutes after the write, upstream
\* having renewed its URLs meanwhile, is redirected to the cached target and
\* fetchRecordById has been called once in all.
C3_Witness ==
    /\ xPc = "done" /\ xResp.status = 302
    /\ xReqs = 2 /\ xFetches = 1
    /\ xReq.key # "" /\ xCache[xReq.key] # NoEntry
    /\ xReq.at = xCache[xReq.key].expiresAt
    /\ xResp.target = xCache[xReq.key].url
    /\ xResp.target # ExpectedTarget(xReq, xVer)

\* C4: a request that misses the cache calls fetchRecordById once; it then
\* answers 404 with the cache untouched when the index has no attachment or the
\* attachment no URL, and otherwise stores the resolved URL under its key with
\* expiry now + TTL and answers 302 to that URL; a request that ends in 400, 404
\* or 500 adds or overwrites no cache entry.
C4_MissOutcome ==
    [][/\ (xReqs' = xReqs + 1 /\ xPc' = "fetch") => xFetches' = xFetches + 1
       /\ (xPc = "fetch" /\ xPc' = "done") =>
            /\ xFetches' = xFetches
            /\ xResp'.status \in {302, 404, 500}
            /\ xResp'.status = 404 => ExpectedTarget(xReq, xVer) = ""
            /\ xResp'.status = 302 =>
                  /\ ExpectedTarget(xReq, xVer) # ""
                  /\ xResp'.target = ExpectedTarget(xReq, xVer)
                  /\ xCache' = [xCache EXCEPT ![xReq.key] =
                                   [url |-> ExpectedTarget(xReq, xVer),
                                    expiresAt |-> xNow + CACHE_TTL_MS]]
       /\ (xPc' = "done" /\ xPc # "off" /\ xResp'.status \in {400, 404, 500}
           /\ (xPc = "fetch" \/ xReqs' = xReqs + 1)) =>
            \A k \in CacheKeys : xCache'[k] \in {xCache[k], NoEntry}
      ]_vars

\* An /image request answered 302 after its fetch, some time after it
\* arrived; before it a request was answered 404 and left no entry.
C4_Witness ==
    /\ xPc = "done" /\ xResp.status = 302 /\ xReq.route = "image"
    /\ xReq.at < xNow
    /\ xReqs = 2 /\ xFetches = 2
    /\ xCache[xReq.key] = [url |-> xResp.target, expiresAt |-> xNow + CACHE_TTL_MS]
    /\ \A k \in CacheKeys \ {xReq.key} : xCache[k] = NoEntry

-----------------------------------------------------------------------------
(* SpecRace: two clients send /img and /image requests for record recA     *)
(* that overlap: between the getCached call of one request and the return  *)
(* of its fetchRecordById, server.js 247, the other request may run any of *)
(* its steps, the clock may advance and upstream may renew its URLs.       *)

Clients == {"a", "b"}

\* The :index parameters sent: the first attachment, and one without URL.
RaceIndexTexts == {"0", "1"}

NoClientRequest ==
    [pc |-> "idle", route |-> "", recordId |-> "", idx |-> 0, key |-> "",
     status |-> 0, target |-> ""]

RaceInit ==
    /\ xNow = 0 /\ xTicks = 0 /\ xCache = [k \in CacheKeys |-> NoEntry] /\ xVer = 1
    /\ xPc = "idle" /\ xReq = NoRequest /\ xResp = NoReply /\ xReqs = 0 /\ xFetches = 0
    /\ rClients = [c \in Clients |-> NoClientRequest]
    /\ rLastWrite = [k \in CacheKeys |-> NoEntry]
    /\ UrlIdle /\ CollectIdle /\ LeadersIdle /\ HandlerIdle /\ PhotoIdle
    /\ TokensIdle

\* server.js 241-247 for the request of client c: got is what getCached returned.
RaceAfterGetCached(c, req, got) ==
    /\ xCache' = got.cache
    /\ IF got.url # ""
       THEN /\ rClients' = [rClients EXCEPT
                               ![c] = [req EXCEPT !.pc = "done", !.status = 302,
                                                  !.target = got.url]]
            /\ UNCHANGED xFetches
       ELSE /\ rClients' = [rClients EXCEPT ![c] = [req EXCEPT !.pc = "fetch"]]
            /\ xFetches' = xFetches + 1

\* server.js 236-247: the handler of client c's request up to its await.
RaceArrive(c, route, num) ==
    /\ ~BadIndex(num)
    /\ RaceAfterGetCached(c,
           [pc |-> "idle", route |-> route, recordId |-> "recA", idx |-> num.n,
            key |-> CacheKey(FieldOf(route), "recA", num.n), status |-> 0, target |-> ""],
           getCached(xCache, CacheKey(FieldOf(route), "recA", num.n), xNow))

RaceRequest ==
    /\ xReqs < MaxRequests
    /\ xReqs' = xReqs + 1
    /\ \E c \in Clients : \E route \in Routes : \E index \in RaceIndexTexts :
          /\ rClients[c].pc \in {"idle", "done"}
          /\ RaceArrive(c, route, NumberOf(index))
    /\ UNCHANGED <<xNow, xTicks, xVer, xPc, xReq, xResp, rLastWrite>>
    /\ UNCHANGED notRace

\* server.js 253-258 for the request of client c.
RaceAfterPick(c, freshUrl) ==
    IF ~Truthy(freshUrl)
    THEN /\ rClients' = [rClients EXCEPT ![c].pc = "done", ![c].status = 404]
         /\ UNCHANGED <<xCache, rLastWrite>>
    ELSE /\ xCache' = setCached(xCache, rClients[c].key, freshUrl.s, xNow)
         /\ rLastWrite' = [rLastWrite EXCEPT ![rClients[c].key] =
                              [url |-> freshUrl.s, expiresAt |-> xNow + 480000]]
         /\ rClients' = [rClients EXCEPT ![c].pc = "done", ![c].status = 302,
                                         ![c].target = freshUrl.s]

\* server.js 248-258 for the request of client c.
RaceAfterFetch(c, att) ==
    IF ~Truthy(att)
    THEN /\ rClients' = [rClients EXCEPT ![c].pc = "done", ![c].status = 404]
         /\ UNCHANGED <<xCache, rLastWrite>>
    ELSE RaceAfterPick(c, pickAttachmentUrl(att))

\* Upstream returns the record to the request of some client.
RaceFetchOk ==
    /\ \E c \in Clients :
          /\ rClients[c].pc = "fetch"
          /\ RaceAfterFetch(c, AttachmentAt(UpstreamRecord(xVer),
                                            FieldOf(rClients[c].route), rClients[c].idx))
    /\ UNCHANGED <<xNow, xTicks, xVer, xPc, xReq, xResp, xReqs, xFetches>>
    /\ UNCHANGED notRace

\* server.js 48 and 259-262: fetchRecordById throws for some client.
RaceFetchFail ==
    /\ \E c \in Clients :
          /\ rClients[c].pc = "fetch"
          /\ rClients' = [rClients EXCEPT ![c].pc = "done", ![c].status = 500]
    /\ UNCHANGED <<proxyVars, rLastWrite>>
    /\ UNCHANGED notRace

RaceNext == RaceRequest \/ RaceFetchOk \/ RaceFetchFail \/ ProxyTick \/ ProxyRenew

SpecRace == RaceInit /\ [][RaceNext]_vars

\* C11: however the requests of the two clients interleave, a cache entry that
\* is present is the one the latest writer of its key stored, URL and expiry;
\* every 302 targets a URL upstream has handed out for the request's own
\* record, field and index; and a step changes no entry but the one under the
\* key of the request that takes the step.
C11_BenignRace ==
    /\ [](\A k \in CacheKeys : xCache[k] # NoEntry => xCache[k] = rLastWrite[k])
    /\ [](\A c \in Clients :
            rClients[c].status = 302 =>
                /\ rClients[c].target # ""
                /\ \E ver \in 1..2 : rClients[c].target = ExpectedTarget(rClients[c], ver))
    /\ [][\A k \in CacheKeys :
              xCache'[k] # xCache[k] =>
                  \E c \in Clients : rClients'[c] # rClients[c] /\ rClients'[c].key = k]_vars

\* Both clients missed the cache for one key while no entry could expire, each
\* fetched, upstream renewed its URLs in between, and the entry is the one of
\* client b, who wrote last.
C11_Witness ==
    /\ rClients # <<>>
    /\ rClients["a"].status = 302 /\ rClients["b"].status = 302
    /\ rClients["a"].key = rClients["b"].key
    /\ rClients["a"].target # rClients["b"].target
    /\ xReqs = 2 /\ xFetches = 2 /\ xNow = 1
    /\ xCache[rClients["b"].key] = [url |-> rClients["b"].target, expiresAt |-> xNow + CACHE_TTL_MS]

-----------------------------------------------------------------------------
(* SpecTokens: normalizeTextField, and normalizeLeaders on an array and on *)
(* the JSON text of the same array, for arrays assembled from a pool.      *)

MaxTokens == 2

\* Plain, padded with inner blanks, quoted, bracketed, a record id, two names
\* in one string around the sequence ",", and objects with a name or an email.
TokenPool ==
    {Str("Ann"), Str("  Bo   Li "), Str("\"Cy\""), Str("[Di]"), Str(RefId14),
     Str("Ed\",\"Flo"), Obj(<<"name">>, <<Str("Gus")>>),
     Obj(<<"email">>, <<Str("h@i.io")>>)}

TokensInit ==
    /\ tIn = Arr(<<>>) /\ tOut = <<>> /\ tPhase = "build"
    /\ UrlIdle /\ CollectIdle /\ LeadersIdle /\ HandlerIdle /\ PhotoIdle /\ ProxyIdle
    /\ RaceIdle

TokensAdd ==
    /\ tPhase = "build"
    /\ Len(tIn.items) < MaxTokens
    /\ \E v \in TokenPool : tIn' = Arr(Append(tIn.items, v))
    /\ UNCHANGED <<tOut, tPhase>>
    /\ UNCHANGED notTokens

\* server.js 346-353: the field goes through normalizeTextField.
TokensField ==
    /\ tPhase = "build"
    /\ tOut' = [text |-> normalizeTextField(tIn), parts |-> Dedup(textPushAny(tIn))]
    /\ tPhase' = "field"
    /\ UNCHANGED tIn
    /\ UNCHANGED notTokens

\* server.js 306: the field goes through normalizeLeaders, as the array and as
\* the JSON text upstream may send instead.
TokensJson ==
    /\ tPhase = "build"
    /\ tOut' = [fromArray |-> normalizeLeaders(tIn),
                fromJson |-> normalizeLeaders(Str(JsonStringify(tIn)))]
    /\ tPhase' = "json"
    /\ UNCHANGED tIn
    /\ UNCHANGED notTokens

TokensNext == TokensAdd \/ TokensField \/ TokensJson

SpecTokens == TokensInit /\ [][TokensNext]_vars

\* C12: every token of a normalizeTextField result is trimmed, free of leading
\* and trailing bracket and quote characters and of whitespace runs, and no
\* record reference; the result is the unique tokens joined with ", ".
C12_SameCleaning ==
    tPhase = "field" =>
        /\ tOut.text = Join(tOut.parts, ", ")
        /\ \A i \in 1..Len(tOut.parts) :
              /\ Trim(tOut.parts[i]) = tOut.parts[i]
              /\ StripQuotesBrackets(tOut.parts[i]) = tOut.parts[i]
              /\ CollapseWs(tOut.parts[i]) = tOut.parts[i]
              /\ ~IsRecordId(tOut.parts[i])
              /\ \A j \in 1..(i - 1) : tOut.parts[j] # tOut.parts[i]

\* C13: normalizeLeaders gives the JSON text of an array what it gives the array.
C13_JsonTextAsArray == tPhase = "json" => tOut.fromJson = tOut.fromArray

-----------------------------------------------------------------------------
(* The links of the Feature Builder against the redirect handlers, under   *)
(* SpecProxy: the record the handlers fetch is the record the builder saw. *)

\* server.js 309-343: the photoN (route "img") or imageN (route "image") slots
\* of the Feature of the upstream record, built for base URL "https://h.io".
EmittedLinks(route, ver) ==
    Slots(FieldUrls(Get(Get(UpstreamRecord(ver), "fields"), FieldOf(route)),
                    "https://h.io", route, Str("recA")))

\* The URL a request was sent to.
RequestUrl(req) == ProxyUrl("https://h.io", req.route, Str(req.recordId), req.idx)

IsEmittedLink(req, ver) ==
    \E n \in 1..MaxSlots : EmittedLinks(req.route, ver)[n] = RequestUrl(req)

\* C14: a request to a link that the Feature of the record carries in a photoN
\* or imageN slot is never answered 404: it is redirected, unless the fetch of
\* the record itself fails.
C14_EmittedLinksResolve ==
    (xPc = "done" /\ xReq.key # "" /\ IsEmittedLink(xReq, xVer)) =>
        xResp.status \in {302, 500}

====
